---- MODULE Spec2Model ----
(***************************************************************************)
(* VL-JEPA prediction server (src/vljepafolder/main.py).                   *)
(*                                                                         *)
(* The model follows one POST /api/predict request through the handler:    *)
(* API-key check, frame-count validation, the call into the global         *)
(* predictor, frame-by-frame decoding, preprocessing into a batch, the     *)
(* placeholder cursor rule and the confidence gate; and the server's       *)
(* lifespan (startup, shutdown) with the readiness probe.                  *)
(*                                                                         *)
(* Conventions.  Floats that are only compared are integers in hundredths  *)
(* (0.85 is 85).  Normalised pixel values are fixed-point thousandths.     *)
(* An image is a constant-colour picture: its mode, its size and the       *)
(* channel values of its pixels.  Python's None is the record None.        *)
(***************************************************************************)
EXTENDS Integers, Sequences, FiniteSets, TLC

VARIABLES
    API_KEY,          \* configuration, read once at import (line 33)
    MIN_CONFIDENCE,   \* configuration, read once at import (line 36), hundredths
    predictor,        \* the global predictor instance (line 237)
    phase,            \* lifespan position: "init", "running", "stopped"
    load_raised,      \* whether load_model raised during startup
    last_ready,       \* status of the last readiness probe answered (0: none yet)
    pc,               \* per handler: position in the predict handler
    req,              \* per handler: the request being handled
    decoded,          \* per handler: decoded_frames built so far (line 155)
    batch,            \* per handler: input_tensor (line 158)
    result,           \* per handler: what predictor.predict returned (line 331)
    response,         \* per handler: the HTTP outcome
    calls             \* per handler: the calls made so far, in order

vars == <<API_KEY, MIN_CONFIDENCE, predictor, phase, load_raised, last_ready,
          pc, req, decoded, batch, result, response, calls>>

config == <<API_KEY, MIN_CONFIDENCE>>
handler_vars == <<pc, req, decoded, batch, result, response, calls>>

(***************************************************************************)
(* Bounds of the model.                                                    *)
(***************************************************************************)
\* Longest frame list enumerated exhaustively over all payloads.
MaxLen == 2
\* Number of handling contexts in the concurrent specification.
NumReq == 2

(***************************************************************************)
(* Program constants.                                                      *)
(***************************************************************************)
MAX_FRAMES == 20
IMG_SIZE == 224
PLACEHOLDER_CONFIDENCE == 85
DEFAULT_MIN_CONFIDENCE == 80
IMAGENET_MEAN == <<485, 456, 406>>
IMAGENET_STD == <<229, 224, 225>>

None == [tag |-> "None"]

Handlers == 1 .. NumReq

(***************************************************************************)
(* Data: images, payloads, contexts, requests.                             *)
(***************************************************************************)
RGBImage(w, h, px) == [tag |-> "Image", mode |-> "RGB", w |-> w, h |-> h, px |-> px]
GrayImage(w, h, v) == [tag |-> "Image", mode |-> "L", w |-> w, h |-> h, px |-> <<v>>]

\* A frame payload: a string that is or is not valid base64, and the bytes'
\* content: an image, or None when the bytes are not an image.
FrameA == [valid_b64 |-> TRUE, image |-> RGBImage(4, 2, <<255, 0, 0>>)]
FrameB == [valid_b64 |-> TRUE, image |-> RGBImage(2, 2, <<0, 128, 255>>)]
FrameG == [valid_b64 |-> TRUE, image |-> GrayImage(2, 2, 128)]
FrameX == [valid_b64 |-> FALSE, image |-> None]
FrameY == [valid_b64 |-> TRUE, image |-> None]

Payloads == {FrameA, FrameB, FrameG, FrameX, FrameY}

ShortLists == UNION {[1 .. n -> Payloads] : n \in 0 .. MaxLen}

\* Lists at and just beyond the limit: all good, a bad last frame, a distinct
\* first frame.
LongLists ==
    {[i \in 1 .. MAX_FRAMES |-> FrameA],
     [i \in 1 .. MAX_FRAMES |-> IF i = MAX_FRAMES THEN FrameX ELSE FrameA],
     [i \in 1 .. MAX_FRAMES |-> IF i = 1 THEN FrameB ELSE FrameA],
     [i \in 1 .. MAX_FRAMES + 1 |-> FrameA],
     [i \in 1 .. MAX_FRAMES + 1 |-> IF i = 1 THEN FrameY ELSE FrameA]}

FrameLists == ShortLists \cup LongLists

CursorYs == {-5, 60, 99, 100, 930, 931, 1000}
CursorXs == {-3, 960}
MonitorHeights == {200, 1080}

Contexts ==
    [monitorWidth : {1920}, monitorHeight : MonitorHeights,
     cursorX : CursorXs, cursorY : CursorYs]

DefaultKey == "your-secure-api-key-here"
\* The X-API-Key header: absent (None, the Header default) or a string.
HeaderValues == {None, [tag |-> "str", s |-> DefaultKey], [tag |-> "str", s |-> "wrong-key"]}

\* Every frame list under two contexts, and every context under three frame
\* lists of different contents.
PipelineContexts ==
    {[monitorWidth |-> 1920, monitorHeight |-> 1080, cursorX |-> 960, cursorY |-> 1000],
     [monitorWidth |-> 1920, monitorHeight |-> 200, cursorX |-> -3, cursorY |-> 60]}

RuleLists == {<<FrameA>>, <<FrameB>>, <<FrameB, FrameA>>}

Requests ==
    [x_api_key : HeaderValues, frames : FrameLists, context : PipelineContexts]
    \cup [x_api_key : HeaderValues, frames : RuleLists, context : Contexts]

Thresholds == {DEFAULT_MIN_CONFIDENCE, PLACEHOLDER_CONFIDENCE, PLACEHOLDER_CONFIDENCE + 1}

(***************************************************************************)
(* Outcomes of calls: a value, or a raised exception.                      *)
(***************************************************************************)
Ok(v) == [ok |-> TRUE, value |-> v]
Raise(e) == [ok |-> FALSE, error |-> e]

\* str(e) of an exception is its message followed by the cause interpolated
\* into it (f"Invalid frame data: {e}"); nothing else is carried.
ValueError(msg, cause) == [type |-> "ValueError", msg |-> msg, cause |-> cause]
AttributeError(msg) == [type |-> "AttributeError", msg |-> msg, cause |-> ""]

HTTPException(status, msg, cause) ==
    [status |-> status, detail |-> [msg |-> msg, cause |-> cause], body |-> None]

\* A returned PredictionResponse (HTTP 200).
HTTPOk(body) == [status |-> 200, detail |-> [msg |-> "", cause |-> ""], body |-> body]

(***************************************************************************)
(* predict, lines 316-325: the checks made before the pipeline.            *)
(***************************************************************************)
\* Variant: an absent header is let through.
api_key_ok_missing_passes(x_api_key, key) ==
    x_api_key = None \/ x_api_key = [tag |-> "str", s |-> key]

api_key_ok(x_api_key, key) == x_api_key = [tag |-> "str", s |-> key]

\* Variant: the limit is off by one.
validate_frames_off_by_one(frames) ==
    IF Len(frames) = 0 THEN HTTPException(400, "No frames provided", "")
    ELSE IF Len(frames) > MAX_FRAMES + 1 THEN HTTPException(400, "Too many frames (max 20)", "")
    ELSE None

\* None when the frame list is accepted, else the HTTPException raised.
validate_frames(frames) ==
    IF Len(frames) = 0 THEN HTTPException(400, "No frames provided", "")
    ELSE IF Len(frames) > MAX_FRAMES THEN HTTPException(400, "Too many frames (max 20)", "")
    ELSE None

(***************************************************************************)
(* VLJEPAPredictor.decode_frame, lines 111-119.                            *)
(***************************************************************************)
\* base64.b64decode: the bytes, or binascii.Error.
b64decode(payload) ==
    IF payload.valid_b64 THEN Ok(payload.image) ELSE Raise("Incorrect padding")

\* Image.open on the bytes: the image, or UnidentifiedImageError.
image_open(bytes) ==
    IF bytes = None THEN Raise("cannot identify image file") ELSE Ok(bytes)

\* np.array(image): (H, W, 3) for RGB, (H, W) for a single-channel image.
np_array(image) ==
    [tag |-> "ndarray",
     shape |-> IF image.mode = "RGB" THEN <<image.h, image.w, 3>> ELSE <<image.h, image.w>>,
     px |-> image.px]

decode_frame(base64_data) ==
    LET b == b64decode(base64_data) IN
    IF ~b.ok THEN Raise(ValueError("Invalid frame data: ", b.error))
    ELSE LET im == image_open(b.value) IN
         IF ~im.ok THEN Raise(ValueError("Invalid frame data: ", im.error))
         ELSE Ok(np_array(im.value))

(***************************************************************************)
(* VLJEPAPredictor.preprocess_frames, lines 121-142.                       *)
(***************************************************************************)
\* (v / 255 - mean_c) / std_c, in thousandths.
normalize(v, c) ==
    ((v * 1000 - 255 * IMAGENET_MEAN[c]) * 1000) \div (255 * IMAGENET_STD[c])

\* Lines 127-137 for one frame: resize to 224x224, scale, normalise (the
\* subtraction of the 3-vector mean broadcasts only over a last axis of 3),
\* transpose to CHW.
preprocess_frame(frame) ==
    LET resized == [frame EXCEPT !.shape = [i \in DOMAIN frame.shape |->
                        IF i <= 2 THEN IMG_SIZE ELSE frame.shape[i]]]
        last == resized.shape[Len(resized.shape)]
    IN  IF last # Len(IMAGENET_MEAN)
        THEN Raise(ValueError("operands could not be broadcast together", ""))
        ELSE Ok([tag |-> "ndarray",
                 shape |-> <<resized.shape[3], resized.shape[1], resized.shape[2]>>,
                 px |-> [c \in 1 .. 3 |-> normalize(resized.px[c], c)]])

\* Variant: the processed frames are stacked newest first.
preprocess_frames_reversed(frames) ==
    LET n == Len(frames)
        out == [i \in 1 .. n |-> preprocess_frame(frames[n + 1 - i])]
        bad == {i \in 1 .. n : ~out[i].ok}
    IN  IF bad # {}
        THEN Raise(out[CHOOSE i \in bad : \A j \in bad : i <= j].error)
        ELSE Ok([tag |-> "tensor",
                 shape |-> <<n, 3, IMG_SIZE, IMG_SIZE>>,
                 slices |-> [i \in 1 .. n |-> out[i].value]])

\* The loop over the frames, in order, and the stack into [T, C, H, W].
preprocess_frames(frames) ==
    LET out == [i \in 1 .. Len(frames) |-> preprocess_frame(frames[i])]
        bad == {i \in 1 .. Len(frames) : ~out[i].ok}
    IN  IF bad # {}
        THEN Raise(out[CHOOSE i \in bad : \A j \in bad : i <= j].error)
        ELSE Ok([tag |-> "tensor",
                 shape |-> <<Len(frames), 3, IMG_SIZE, IMG_SIZE>>,
                 slices |-> [i \in 1 .. Len(frames) |-> out[i].value]])

(***************************************************************************)
(* VLJEPAPredictor.predict, lines 171-230: the placeholder rule.           *)
(***************************************************************************)
ActionRegion(x, y, width, height) == [x |-> x, y |-> y, width |-> width, height |-> height]

PredictedAction(type, target, region) == [type |-> type, target |-> target, region |-> region]

PredictionResponse(confidence, description, actions) ==
    [confidence |-> confidence, description |-> description, actions |-> actions]

\* Variant: the top-of-screen test comes first.
placeholder_rule_menu_first(context) ==
    LET cursor_x == context.cursorX
        cursor_y == context.cursorY
        confidence == PLACEHOLDER_CONFIDENCE
    IN  IF cursor_y < 100
        THEN PredictionResponse(confidence, "Click menu or toolbar button",
                 <<PredictedAction("click", "Menu button",
                       ActionRegion(cursor_x - 40, cursor_y - 15, 80, 30))>>)
        ELSE IF cursor_y > context.monitorHeight - 150
        THEN PredictionResponse(confidence, "Open application from taskbar",
                 <<PredictedAction("click", "Taskbar item",
                       ActionRegion(cursor_x - 20, cursor_y - 10, 40, 40))>>)
        ELSE PredictionResponse(confidence, "Click on UI element",
                 <<PredictedAction("click", "UI element",
                       ActionRegion(cursor_x - 50, cursor_y - 15, 100, 30))>>)

placeholder_rule(context) ==
    LET cursor_x == context.cursorX
        cursor_y == context.cursorY
        confidence == PLACEHOLDER_CONFIDENCE
    IN  IF cursor_y > context.monitorHeight - 150
        THEN PredictionResponse(confidence, "Open application from taskbar",
                 <<PredictedAction("click", "Taskbar item",
                       ActionRegion(cursor_x - 20, cursor_y - 10, 40, 40))>>)
        ELSE IF cursor_y < 100
        THEN PredictionResponse(confidence, "Click menu or toolbar button",
                 <<PredictedAction("click", "Menu button",
                       ActionRegion(cursor_x - 40, cursor_y - 15, 80, 30))>>)
        ELSE PredictionResponse(confidence, "Click on UI element",
                 <<PredictedAction("click", "UI element",
                       ActionRegion(cursor_x - 50, cursor_y - 15, 100, 30))>>)

(***************************************************************************)
(* predict, lines 333-349: the confidence filter and the error mapping.    *)
(***************************************************************************)
\* Variant: a confidence equal to the threshold is filtered too.
filter_low_confidence_inclusive(r, threshold) ==
    IF r.confidence <= threshold
    THEN PredictionResponse(r.confidence, "No confident prediction", <<>>)
    ELSE r

filter_low_confidence(r, threshold) ==
    IF r.confidence < threshold
    THEN PredictionResponse(r.confidence, "No confident prediction", <<>>)
    ELSE r

\* Variant: no except ValueError clause.
classify_error_all_internal(e) == HTTPException(500, "Prediction failed", "")

\* except ValueError -> 400 with str(e); except Exception -> 500.
classify_error(e) ==
    IF e.type = "ValueError" THEN HTTPException(400, e.msg, e.cause)
    ELSE HTTPException(500, "Prediction failed", "")

(***************************************************************************)
(* The probes.                                                             *)
(***************************************************************************)
readiness_probe == IF predictor = None THEN 503 ELSE 200

(***************************************************************************)
(* State after import: configuration read, no predictor, nothing handled.  *)
(***************************************************************************)
Idle == [h \in Handlers |-> None]

Init ==
    /\ API_KEY = DefaultKey
    /\ MIN_CONFIDENCE \in Thresholds
    /\ predictor = None
    /\ phase = "init"
    /\ load_raised = FALSE
    /\ last_ready = 0
    /\ pc = [h \in Handlers |-> "idle"]
    /\ req = Idle
    /\ decoded = [h \in Handlers |-> <<>>]
    /\ batch = Idle
    /\ result = Idle
    /\ response = Idle
    /\ calls = [h \in Handlers |-> <<>>]

(***************************************************************************)
(* lifespan, lines 239-255, and VLJEPAPredictor.__init__/load_model.       *)
(***************************************************************************)
VLJEPAPredictor == [tag |-> "VLJEPAPredictor", model_path |-> "./models/vljepa_vitl16.pth",
                    device |-> "cpu", model |-> None]

\* Variant: the predictor is published only after a successful load.
StartupPropagates ==
    /\ phase = "init"
    /\ \E raised \in BOOLEAN :
        /\ load_raised' = raised
        /\ predictor' = IF raised THEN None ELSE VLJEPAPredictor
    /\ phase' = "running"
    /\ UNCHANGED <<config, last_ready, handler_vars>>

\* Lines 244-252: construct the predictor, try load_model, swallow its failure.
Startup ==
    /\ phase = "init"
    /\ \E raised \in BOOLEAN :
        /\ load_raised' = raised
        /\ predictor' = VLJEPAPredictor
    /\ phase' = "running"
    /\ UNCHANGED <<config, last_ready, handler_vars>>

\* Lines 254-255.  The server runs the lifespan's shutdown half once no
\* request is being handled.
Shutdown ==
    /\ phase = "running"
    /\ \A h \in Handlers : pc[h] = "idle"
    /\ predictor' = None
    /\ phase' = "stopped"
    /\ UNCHANGED <<config, load_raised, last_ready, handler_vars>>

\* GET /ready, lines 363-370, answered while the server is serving.
ReadinessProbe ==
    /\ phase = "running"
    /\ last_ready' = readiness_probe
    /\ UNCHANGED <<config, predictor, phase, load_raised, handler_vars>>

(***************************************************************************)
(* POST /api/predict, lines 300-349, one action per step of the handler.   *)
(***************************************************************************)
Call(fn, arg) == [fn |-> fn, arg |-> arg]

Finish(h, resp) ==
    /\ response' = [response EXCEPT ![h] = resp]
    /\ pc' = [pc EXCEPT ![h] = "done"]

\* A parsed request reaches the handler.
Receive(h, r) ==
    /\ phase = "running"
    /\ pc[h] = "idle"
    /\ req' = [req EXCEPT ![h] = r]
    /\ pc' = [pc EXCEPT ![h] = "auth"]
    /\ UNCHANGED <<config, predictor, phase, load_raised, last_ready,
                   decoded, batch, result, response, calls>>

\* Lines 316-318.
CheckApiKey(h) ==
    /\ pc[h] = "auth"
    /\ IF api_key_ok(req[h].x_api_key, API_KEY)
       THEN pc' = [pc EXCEPT ![h] = "validate"] /\ UNCHANGED response
       ELSE Finish(h, HTTPException(401, "Invalid API key", ""))
    /\ UNCHANGED <<config, predictor, phase, load_raised, last_ready,
                   req, decoded, batch, result, calls>>

\* Lines 320-325.
ValidateRequest(h) ==
    /\ pc[h] = "validate"
    /\ calls' = [calls EXCEPT ![h] = Append(@, Call("validate", 0))]
    /\ LET v == validate_frames(req[h].frames) IN
       IF v = None
       THEN pc' = [pc EXCEPT ![h] = "invoke"] /\ UNCHANGED response
       ELSE Finish(h, v)
    /\ UNCHANGED <<config, predictor, phase, load_raised, last_ready,
                   req, decoded, batch, result>>

\* Line 331: the attribute lookup on the global; on None it raises
\* AttributeError, which line 347 turns into 500.
CallPredictor(h) ==
    /\ pc[h] = "invoke"
    /\ IF predictor = None
       THEN Finish(h, classify_error(AttributeError("'NoneType' object has no attribute 'predict'")))
       ELSE pc' = [pc EXCEPT ![h] = "decode"] /\ UNCHANGED response
    /\ UNCHANGED <<config, predictor, phase, load_raised, last_ready,
                   req, decoded, batch, result, calls>>

\* Variant: a frame that fails to decode is skipped and decoding goes on.
DecodeFrameSkipsBad(h) ==
    /\ pc[h] = "decode"
    /\ LET i == Cardinality({k \in DOMAIN calls[h] : calls[h][k].fn = "decode_frame"}) + 1
           d == decode_frame(req[h].frames[i])
       IN  /\ calls' = [calls EXCEPT ![h] = Append(@, Call("decode_frame", i - 1))]
           /\ decoded' = [decoded EXCEPT ![h] = IF d.ok THEN Append(@, d.value) ELSE @]
           /\ pc' = [pc EXCEPT ![h] =
                        IF i = Len(req[h].frames) THEN "preprocess" ELSE "decode"]
           /\ UNCHANGED response
    /\ UNCHANGED <<config, predictor, phase, load_raised, last_ready, req, batch, result>>

\* Line 155: one iteration of the list comprehension.  An exception leaves
\* the comprehension (and predict) at once.
DecodeFrame(h) ==
    /\ pc[h] = "decode"
    /\ LET i == Len(decoded[h]) + 1
           d == decode_frame(req[h].frames[i])
       IN  /\ calls' = [calls EXCEPT ![h] = Append(@, Call("decode_frame", i - 1))]
           /\ IF d.ok
              THEN /\ decoded' = [decoded EXCEPT ![h] = Append(@, d.value)]
                   /\ pc' = [pc EXCEPT ![h] =
                                IF i = Len(req[h].frames) THEN "preprocess" ELSE "decode"]
                   /\ UNCHANGED response
              ELSE /\ Finish(h, classify_error(d.error))
                   /\ UNCHANGED decoded
    /\ UNCHANGED <<config, predictor, phase, load_raised, last_ready, req, batch, result>>

\* Line 158.
PreprocessFrames(h) ==
    /\ pc[h] = "preprocess"
    /\ calls' = [calls EXCEPT ![h] = Append(@, Call("preprocess_frames", 0))]
    /\ LET t == preprocess_frames(decoded[h]) IN
       IF t.ok
       THEN /\ batch' = [batch EXCEPT ![h] = t.value]
            /\ pc' = [pc EXCEPT ![h] = "rule"]
            /\ UNCHANGED response
       ELSE /\ Finish(h, classify_error(t.error))
            /\ UNCHANGED batch
    /\ UNCHANGED <<config, predictor, phase, load_raised, last_ready, req, decoded, result>>

\* Variant: predict keeps the last context on the shared predictor.
ApplyRuleCaching(h) ==
    /\ pc[h] = "rule"
    /\ calls' = [calls EXCEPT ![h] = Append(@, Call("rule", 0))]
    /\ result' = [result EXCEPT ![h] = placeholder_rule(req[h].context)]
    /\ predictor' = [predictor EXCEPT !.model = req[h].context]
    /\ pc' = [pc EXCEPT ![h] = "gate"]
    /\ UNCHANGED <<config, phase, load_raised, last_ready,
                   req, decoded, batch, response>>

\* Lines 171-230; predict returns to line 331.
ApplyRule(h) ==
    /\ pc[h] = "rule"
    /\ calls' = [calls EXCEPT ![h] = Append(@, Call("rule", 0))]
    /\ result' = [result EXCEPT ![h] = placeholder_rule(req[h].context)]
    /\ pc' = [pc EXCEPT ![h] = "gate"]
    /\ UNCHANGED <<config, predictor, phase, load_raised, last_ready,
                   req, decoded, batch, response>>

\* Lines 333-343.
GateResult(h) ==
    /\ pc[h] = "gate"
    /\ calls' = [calls EXCEPT ![h] = Append(@, Call("gate", 0))]
    /\ Finish(h, HTTPOk(filter_low_confidence(result[h], MIN_CONFIDENCE)))
    /\ UNCHANGED <<config, predictor, phase, load_raised, last_ready,
                   req, decoded, batch, result>>

\* The response is sent; the request's locals are gone.
Respond(h) ==
    /\ pc[h] = "done"
    /\ pc' = [pc EXCEPT ![h] = "idle"]
    /\ req' = [req EXCEPT ![h] = None]
    /\ decoded' = [decoded EXCEPT ![h] = <<>>]
    /\ batch' = [batch EXCEPT ![h] = None]
    /\ result' = [result EXCEPT ![h] = None]
    /\ response' = [response EXCEPT ![h] = None]
    /\ calls' = [calls EXCEPT ![h] = <<>>]
    /\ UNCHANGED <<config, predictor, phase, load_raised, last_ready>>

(***************************************************************************)
(* One request at a time, over the full input set.                         *)
(***************************************************************************)
Next ==
    \/ Startup
    \/ Shutdown
    \/ ReadinessProbe
    \/ \E r \in Requests : Receive(1, r)
    \/ CheckApiKey(1)
    \/ ValidateRequest(1)
    \/ CallPredictor(1)
    \/ DecodeFrame(1)
    \/ PreprocessFrames(1)
    \/ ApplyRule(1)
    \/ GateResult(1)
    \/ Respond(1)

Spec == Init /\ [][Next]_vars

(***************************************************************************)
(* Several handling contexts at once, their steps interleaved, over a      *)
(* small input set.  (The handler body has no await, so the event loop     *)
(* runs it without interruption; interleaving every step is the wider      *)
(* behaviour of independent handling contexts.)                            *)
(***************************************************************************)
Ctx1 == [monitorWidth |-> 1920, monitorHeight |-> 1080, cursorX |-> 960, cursorY |-> 1000]
Ctx2 == [monitorWidth |-> 1920, monitorHeight |-> 1080, cursorX |-> 500, cursorY |-> 50]

GoodKey == [tag |-> "str", s |-> DefaultKey]

ConcRequests ==
    {[x_api_key |-> None, frames |-> <<FrameA>>, context |-> Ctx1],
     [x_api_key |-> GoodKey, frames |-> <<>>, context |-> Ctx1],
     [x_api_key |-> GoodKey, frames |-> <<FrameX>>, context |-> Ctx1],
     [x_api_key |-> GoodKey, frames |-> <<FrameA, FrameX, FrameB>>, context |-> Ctx2],
     [x_api_key |-> GoodKey, frames |-> <<FrameY, FrameA>>, context |-> Ctx2],
     [x_api_key |-> GoodKey, frames |-> <<FrameG>>, context |-> Ctx1],
     [x_api_key |-> GoodKey, frames |-> <<FrameA, FrameB>>, context |-> Ctx1],
     [x_api_key |-> GoodKey, frames |-> <<FrameB>>, context |-> Ctx2]}

NextConc ==
    \/ Startup
    \/ Shutdown
    \/ ReadinessProbe
    \/ \E h \in Handlers : \E r \in ConcRequests : Receive(h, r)
    \/ \E h \in Handlers : CheckApiKey(h)
    \/ \E h \in Handlers : ValidateRequest(h)
    \/ \E h \in Handlers : CallPredictor(h)
    \/ \E h \in Handlers : DecodeFrame(h)
    \/ \E h \in Handlers : PreprocessFrames(h)
    \/ \E h \in Handlers : ApplyRule(h)
    \/ \E h \in Handlers : GateResult(h)
    \/ \E h \in Handlers : Respond(h)

SpecConc == Init /\ [][NextConc]_vars

(***************************************************************************)
(* The handler as a function of the request: what one request gets when    *)
(* it is handled alone by a running server (lines 316-349 in sequence).    *)
(***************************************************************************)
HandleAlone(r) ==
    IF ~api_key_ok(r.x_api_key, API_KEY) THEN HTTPException(401, "Invalid API key", "")
    ELSE LET v == validate_frames(r.frames) IN
    IF v # None THEN v
    ELSE LET ds == [i \in 1 .. Len(r.frames) |-> decode_frame(r.frames[i])]
             bad == {i \in 1 .. Len(r.frames) : ~ds[i].ok}
         IN
    IF bad # {} THEN classify_error(ds[CHOOSE i \in bad : \A j \in bad : i <= j].error)
    ELSE LET t == preprocess_frames([i \in 1 .. Len(r.frames) |-> ds[i].value]) IN
    IF ~t.ok THEN classify_error(t.error)
    ELSE HTTPOk(filter_low_confidence(placeholder_rule(r.context), MIN_CONFIDENCE))

(***************************************************************************)
(* Vocabulary of the properties, stated on the request itself.             *)
(***************************************************************************)
Handling(h) == pc[h] # "idle"

KeyMatches(h) == req[h].x_api_key = [tag |-> "str", s |-> API_KEY]

CountValid(h) == Len(req[h].frames) \in 1 .. 20

Undecodable(payload) == ~payload.valid_b64 \/ payload.image = None

BadFrames(h) == {i \in 1 .. Len(req[h].frames) : Undecodable(req[h].frames[i])}

FirstBad(h) == CHOOSE i \in BadFrames(h) : \A j \in BadFrames(h) : i <= j

Called(h, fn) == \E k \in DOMAIN calls[h] : calls[h][k].fn = fn

DecodeCalls(h) == SelectSeq(calls[h], LAMBDA c : c.fn = "decode_frame")

\* The decoder's own message for a payload it rejects.
DecoderMessage(payload) ==
    IF ~payload.valid_b64 THEN "Incorrect padding" ELSE "cannot identify image file"

DecodeFailed(h) ==
    /\ pc[h] = "done"
    /\ KeyMatches(h)
    /\ CountValid(h)
    /\ BadFrames(h) # {}

(***************************************************************************)
(* C1.  Confidence gating: when the predictor returned r, the response is  *)
(* a 200; if r.confidence < MIN_CONFIDENCE it carries r's confidence, the  *)
(* description "No confident prediction" and no actions; otherwise         *)
(* (equality included) it is r unchanged.                                  *)
(***************************************************************************)
C1_ConfidenceGating ==
    \A h \in Handlers :
        (pc[h] = "done" /\ result[h] # None) =>
            /\ response[h].status = 200
            /\ IF result[h].confidence < MIN_CONFIDENCE
               THEN /\ response[h].body.confidence = result[h].confidence
                    /\ response[h].body.description = "No confident prediction"
                    /\ response[h].body.actions = <<>>
               ELSE response[h].body = result[h]

\* A prediction one unit below the threshold has been gated and returned.
C1_Witness ==
    \E h \in Handlers :
        /\ pc[h] = "done"
        /\ result[h] # None
        /\ result[h].confidence + 1 = MIN_CONFIDENCE
        /\ response[h].status = 200
        /\ response[h].body.actions = <<>>

(***************************************************************************)
(* C2.  An authorized request with 1..20 frames of which one cannot be     *)
(* decoded never enters preprocess_frames, the rule or the gate, builds    *)
(* no batch and no result, and ends with HTTP 400 and no response body.    *)
(***************************************************************************)
C2_UndecodableIsBadInput ==
    \A h \in Handlers :
        (Handling(h) /\ KeyMatches(h) /\ CountValid(h) /\ BadFrames(h) # {}) =>
            /\ ~Called(h, "preprocess_frames")
            /\ ~Called(h, "rule")
            /\ ~Called(h, "gate")
            /\ batch[h] = None
            /\ result[h] = None
            /\ pc[h] = "done" => (response[h].status = 400 /\ response[h].body = None)

\* A 20-frame request whose last frame is undecodable has been answered.
C2_Witness ==
    \E h \in Handlers :
        /\ DecodeFailed(h)
        /\ Len(req[h].frames) = MAX_FRAMES
        /\ FirstBad(h) = MAX_FRAMES
        /\ response[h].status = 400

(***************************************************************************)
(* C3.  An authorized request with no frame or more than 20 frames ends    *)
(* with HTTP 400 and decode_frame is never called for it; an authorized    *)
(* request with 1..20 frames gets past validation and its frame 0 is       *)
(* decoded.                                                                *)
(***************************************************************************)
C3_CountValidatedBeforeDecoding ==
    \A h \in Handlers :
        (Handling(h) /\ KeyMatches(h)) =>
            /\ ~CountValid(h) =>
                  /\ ~Called(h, "decode_frame")
                  /\ decoded[h] = <<>>
                  /\ pc[h] \in {"auth", "validate", "done"}
                  /\ pc[h] = "done" => response[h].status = 400
            /\ (CountValid(h) /\ pc[h] \in {"preprocess", "rule", "gate", "done"}) =>
                  /\ Len(calls[h]) >= 2
                  /\ calls[h][1] = Call("validate", 0)
                  /\ calls[h][2] = Call("decode_frame", 0)

\* A 21-frame request has been rejected.
C3_Witness ==
    \E h \in Handlers :
        /\ pc[h] = "done"
        /\ KeyMatches(h)
        /\ Len(req[h].frames) = MAX_FRAMES + 1
        /\ response[h].status = 400
        /\ calls[h] = <<Call("validate", 0)>>

(***************************************************************************)
(* C4.  A request whose X-API-Key is missing or differs from API_KEY ends  *)
(* with HTTP 401 whatever its frames and context, and none of validation,  *)
(* decoding, preprocessing, the rule or the gate runs for it.              *)
(***************************************************************************)
C4_UnauthorizedBeforeEverything ==
    \A h \in Handlers :
        (Handling(h) /\ ~KeyMatches(h)) =>
            /\ calls[h] = <<>>
            /\ decoded[h] = <<>>
            /\ batch[h] = None
            /\ result[h] = None
            /\ pc[h] \in {"auth", "done"}
            /\ pc[h] = "done" => response[h].status = 401

\* A request with no key and an empty frame list has been answered 401.
C4_Witness ==
    \E h \in Handlers :
        /\ pc[h] = "done"
        /\ req[h].x_api_key = None
        /\ req[h].frames = <<>>
        /\ response[h].status = 401

(***************************************************************************)
(* C5.  The placeholder rule: once decoding and preprocessing succeeded,   *)
(* the prediction has confidence 0.85 and exactly one click action, and    *)
(* its description is decided by the context alone: the taskbar text if    *)
(* cursorY > monitorHeight - 150, else the menu text if cursorY < 100,     *)
(* else the general text; the taskbar branch wins when both tests hold.    *)
(***************************************************************************)
C5_PlaceholderRule ==
    \A h \in Handlers :
        /\ pc[h] = "gate" => result[h] # None
        /\ result[h] # None =>
            LET c == req[h].context
                r == result[h]
            IN  /\ batch[h] # None
                /\ r.confidence = 85
                /\ Len(r.actions) = 1
                /\ r.actions[1].type = "click"
                /\ r.description =
                       IF c.cursorY > c.monitorHeight - 150 THEN "Open application from taskbar"
                       ELSE IF c.cursorY < 100 THEN "Click menu or toolbar button"
                       ELSE "Click on UI element"

\* Both tests hold (a monitor lower than 250, a negative cursorX) and the
\* taskbar branch was taken.
C5_Witness ==
    \E h \in Handlers :
        /\ result[h] # None
        /\ req[h].context.monitorHeight < 250
        /\ req[h].context.cursorY > req[h].context.monitorHeight - 150
        /\ req[h].context.cursorY < 100
        /\ req[h].context.cursorX < 0
        /\ result[h].description = "Open application from taskbar"

(***************************************************************************)
(* C6.  In the taskbar branch the click's region is a 40x40 box centred    *)
(* at the cursor: x + width/2 = cursorX and y + height/2 = cursorY.        *)
(***************************************************************************)
C6_TaskbarRegionCentered ==
    \A h \in Handlers :
        (result[h] # None /\ req[h].context.cursorY > req[h].context.monitorHeight - 150) =>
            LET g == result[h].actions[1].region
                c == req[h].context
            IN  /\ g.width = 40
                /\ g.height = 40
                /\ g.x + g.width \div 2 = c.cursorX
                /\ g.y + g.height \div 2 = c.cursorY

(***************************************************************************)
(* C7 as amended.  Decoding is fail-fast: when frame i is the first frame  *)
(* that fails to decode, decode_frame has been called for frames 0..i in   *)
(* that order and for no other frame, frames 0..i-1 are the decoded ones,  *)
(* and the caller gets HTTP 400 whose detail is "Invalid frame data: "     *)
(* followed by the decoder's message for frame i; the detail carries no    *)
(* index.                                                                  *)
(***************************************************************************)
C7_FailFastWithoutIndex ==
    \A h \in Handlers :
        DecodeFailed(h) =>
            LET i == FirstBad(h) IN
            /\ DecodeCalls(h) = [k \in 1 .. i |-> Call("decode_frame", k - 1)]
            /\ Len(decoded[h]) = i - 1
            /\ \A k \in 1 .. i - 1 : decoded[h][k] = decode_frame(req[h].frames[k]).value
            /\ response[h].status = 400
            /\ response[h].detail =
                   [msg |-> "Invalid frame data: ", cause |-> DecoderMessage(req[h].frames[i])]

\* A request whose second frame is the first to fail, with a frame after it,
\* has been answered.
C7_Witness ==
    \E h \in Handlers :
        /\ DecodeFailed(h)
        /\ FirstBad(h) = 2
        /\ Len(req[h].frames) > 2
        /\ Len(DecodeCalls(h)) = 2

(***************************************************************************)
(* C7 as stated.  The same, and the error surfaced to the caller           *)
(* identifies the index of the frame that failed: two decode failures      *)
(* with the same error detail fail at the same index.                      *)
(***************************************************************************)
C7_ErrorIdentifiesIndex ==
    /\ \A h \in Handlers :
        DecodeFailed(h) =>
            /\ DecodeCalls(h) = [k \in 1 .. FirstBad(h) |-> Call("decode_frame", k - 1)]
            /\ response[h].status = 400
    /\ \A g, h \in Handlers :
        (DecodeFailed(g) /\ DecodeFailed(h) /\ response[g].detail = response[h].detail) =>
            FirstBad(g) = FirstBad(h)

(***************************************************************************)
(* C8.  Once the batch is built for a request of T frames (1 <= T <= 20,   *)
(* all decoding to 3-channel images), it has exactly T temporal slices     *)
(* and slice i is what preprocessing the decoding of input frame i alone   *)
(* gives.                                                                  *)
(***************************************************************************)
C8_FrameOrderPreserved ==
    \A h \in Handlers :
        batch[h] # None =>
            LET f == req[h].frames
                T == Len(f)
            IN  /\ T \in 1 .. 20
                /\ batch[h].shape = <<T, 3, 224, 224>>
                /\ Len(batch[h].slices) = T
                /\ \A i \in 1 .. T :
                       /\ decode_frame(f[i]).ok
                       /\ decode_frame(f[i]).value.shape[3] = 3
                       /\ batch[h].slices[i] =
                              preprocess_frames(<<decode_frame(f[i]).value>>).value.slices[1]

\* A batch of 20 slices whose first two differ has been built.
C8_Witness ==
    \E h \in Handlers :
        /\ batch[h] # None
        /\ Len(req[h].frames) = MAX_FRAMES
        /\ req[h].frames[1] # req[h].frames[2]
        /\ batch[h].slices[1] # batch[h].slices[2]

(***************************************************************************)
(* C9.  No step of a predict handler changes the global predictor or the   *)
(* configuration, and under every interleaving of the handlers' steps      *)
(* each request ends with the outcome it gets when handled alone.          *)
(***************************************************************************)
C9_RequestsIndependent ==
    /\ [](\A h \in Handlers : pc[h] = "done" => response[h] = HandleAlone(req[h]))
    /\ [][(pc' # pc) => (predictor' = predictor /\ config' = config)]_vars

\* One handler has answered 200 while another, received meanwhile, is in
\* the middle of decoding.
C9_Witness ==
    \E g, h \in Handlers :
        /\ g # h
        /\ pc[g] = "done"
        /\ response[g].status = 200
        /\ pc[h] = "decode"
        /\ decoded[h] # <<>>
        /\ req[g] # req[h]

(***************************************************************************)
(* C10.  The global predictor is None before startup and after shutdown    *)
(* and not None while the server runs, whether or not load_model raised;   *)
(* the readiness probe answers 503 exactly where predictor is None, and    *)
(* every probe answered while running was answered ready.                  *)
(***************************************************************************)
C10_PredictorLifecycle ==
    /\ phase \in {"init", "stopped"} => predictor = None
    /\ phase = "running" => predictor # None
    /\ (readiness_probe = 503) <=> (predictor = None)
    /\ phase = "running" => readiness_probe = 200
    /\ last_ready \in {0, 200}

\* The model load raised, the server runs and a probe was answered ready.
C10_Witness ==
    /\ phase = "running"
    /\ load_raised
    /\ predictor # None
    /\ last_ready = 200

====
